---- MODULE Spec2Model ----
(***************************************************************************)
(* Battle Sandbox (js/main.js): the simulation engine (Arena), the ability *)
(* compiler and the Play / Pause / Reset / Validate handlers.              *)
(*                                                                         *)
(* Numbers.  JavaScript numbers are modelled as exact fixed-point          *)
(* integers:                                                               *)
(*   time       in ms            (1 s = Sec)                               *)
(*   position   in 1/1000 px     (Px(n) is n px)                           *)
(*   velocity   in px/s          (vel * dt[ms] is a distance in 1/1000 px) *)
(*   hp, damage in 1/6 hp        (Hp(n) is n hp; 100/(100+20) = 5/6)       *)
(*   attackSpeed in 1/100                                                  *)
(* Geometry.  Arena.reset puts both fighters on the line y = midy, and     *)
(* every y update of tick/applyEffects/spawnProjectile is a multiple of    *)
(* (op.y - me.y) or of sign(target.y - caster.y), which is 0 on that line, *)
(* so y stays midy and only x is kept.  x is measured from midx.           *)
(***************************************************************************)
EXTENDS Integers, Sequences, FiniteSets, TLC

VARIABLES
    abilitiesText,  \* abilitiesA.value / abilitiesB.value: the script in each editor
    statsData,      \* StatsEditor's data of each fighter
    compiled,       \* compiledA / compiledB
    running,        \* Arena.running
    playDisabled,   \* playBtn.disabled
    pauseDisabled,  \* pauseBtn.disabled
    loopAlive,      \* a requestAnimationFrame(loop) callback is pending
    fighters,       \* Arena.fighters: <<>> or <<A, B>>
    projectiles,    \* Arena.projectiles
    frames,         \* number of ticks run so far (bounded by MaxFrames)
    trace,          \* what the last call of Arena.tick did (NoTrace after any other handler)
    hist            \* history of a run driven through Arena.tick (kept by SpecTick only)

vars == <<abilitiesText, statsData, compiled, running, playDisabled, pauseDisabled,
          loopAlive, fighters, projectiles, frames, trace, hist>>

-----------------------------------------------------------------------------
(* Utilities *)

Sec == 1000
Px(n) == n * 1000
Hp(n) == n * 6

Max(a, b) == IF a >= b THEN a ELSE b
Min(a, b) == IF a <= b THEN a ELSE b
Abs(a) == IF a < 0 THEN 0 - a ELSE a
Sign(a) == IF a > 0 THEN 1 ELSE IF a < 0 THEN 0 - 1 ELSE 0

clamp(x, a, b) == Max(a, Min(b, x))

\* dist(a, b) on the line y = midy
dist(a, b) == Abs(a - b)

\* Integer quotient rounded toward zero (the model's rounding of a product
\* with the irrational factor 0.2^dt).
Trunc(a, b) == IF a >= 0 THEN a \div b ELSE 0 - ((0 - a) \div b)

Other(i) == 3 - i

Kinds == {"physical", "magical", "both"}
AbilityTypes == {"physical", "magical", "both", "status"}

-----------------------------------------------------------------------------
(* Effects helpers *)

NoEffect == [kind |-> "none", dtype |-> "both", amount |-> 0, dps |-> 0,
             duration |-> 0, force |-> 0]

damage(amount, kind) == [NoEffect EXCEPT !.kind = "damage", !.amount = amount, !.dtype = kind]
dot(dps, duration, kind) ==
    [NoEffect EXCEPT !.kind = "dot", !.dps = dps, !.duration = duration, !.dtype = kind]
immunity(kind, duration) ==
    [NoEffect EXCEPT !.kind = "immunity", !.dtype = kind, !.duration = duration]
timeFreeze(duration) == [NoEffect EXCEPT !.kind = "timeFreeze", !.duration = duration]
knockback(force) == [NoEffect EXCEPT !.kind = "knockback", !.force = force]

-----------------------------------------------------------------------------
(* Ability factory.  A script hands Ability.make a spec: the fields it gives *)
(* (given) and their values; the other fields take the defaults.             *)

\* onCast callbacks, by what they do with (self, target, world)
\* "applyEffects": world.applyEffects(this.effects, self, target), then the same
\* call with the effects in extra
ApplyOnCast == [kind |-> "applyEffects", speed |-> 0, maxTime |-> 0, duration |-> 0,
                extra |-> <<>>]
SelfOnCast == [ApplyOnCast EXCEPT !.kind = "applySelf"]
ApplyThenOnCast(extra) == [ApplyOnCast EXCEPT !.extra = extra]
NoOnCast == [ApplyOnCast EXCEPT !.kind = "nothing"]
ThrowOnCast == [ApplyOnCast EXCEPT !.kind = "throws"]
FreezeOnCast(d) == [ApplyOnCast EXCEPT !.kind = "timeFreeze", !.duration = d]
ProjectileOnCast(speed, maxTime) ==
    [ApplyOnCast EXCEPT !.kind = "spawnProjectile", !.speed = speed, !.maxTime = maxTime]
\* as above with an onHit that throws
ProjectileThrowOnCast(speed, maxTime) ==
    [ProjectileOnCast(speed, maxTime) EXCEPT !.kind = "spawnProjectileThrows"]

AbilityDefaults ==
    [name |-> "Ability", type |-> "status", cooldown |-> 2000, range |-> 20,
     effects |-> <<>>, onCast |-> ApplyOnCast]

AbilityFields == {"name", "type", "cooldown", "range", "effects", "onCast"}

\* Object.assign({defaults}, spec)
AbilityAssign(spec) ==
    [name |-> IF "name" \in spec.given THEN spec.name ELSE AbilityDefaults.name,
     type |-> IF "type" \in spec.given THEN spec.type ELSE AbilityDefaults.type,
     cooldown |-> IF "cooldown" \in spec.given THEN spec.cooldown ELSE AbilityDefaults.cooldown,
     range |-> IF "range" \in spec.given THEN spec.range ELSE AbilityDefaults.range,
     effects |-> IF "effects" \in spec.given THEN spec.effects ELSE AbilityDefaults.effects,
     onCast |-> IF "onCast" \in spec.given THEN spec.onCast ELSE AbilityDefaults.onCast]

\* the validation of Ability.make: TRUE when it does not throw
AbilityValid(a) ==
    /\ a.type \in AbilityTypes
    /\ a.cooldown > 0
    /\ a.range >= 0

\* Ability.make(spec): the ability it returns when the validation passes
AbilityMake(spec) == AbilityAssign(spec)

\* Ability.make(spec) throws
AbilityThrows(spec) == ~AbilityValid(AbilityAssign(spec))

-----------------------------------------------------------------------------
(* Fighter model *)

CanvasHalfWidth == 480

NoImmunities == [physical |-> 0, magical |-> 0, both |-> 0]

makeFighter(name, stats, abilities) ==
    [name |-> name,
     base |-> stats,
     hp |-> stats.hp,
     pos |-> Px(0 - CanvasHalfWidth),
     vel |-> 0,
     facing |-> 1,
     dots |-> <<>>,
     immunities |-> NoImmunities,
     freeze |-> 0,
     cd |-> <<>>,
     abilities |-> abilities]

-----------------------------------------------------------------------------
(* Arena: effects *)

NoTrace ==
    [op |-> "none", dt |-> 0, turns |-> <<>>, casts |-> <<>>, hits |-> <<>>,
     applied |-> <<>>, pulses |-> <<>>, expired |-> <<>>, status |-> <<"", "">>]

\* the arena while a handler runs: fault is set once a callback has thrown
World(fs, ps) == [fighters |-> fs, projectiles |-> ps, fault |-> FALSE, trace |-> NoTrace]

\* mutant of isImmune: an immunity counts until it is negative
isImmuneAtZero(target, dtype) ==
    IF dtype = "both"
    THEN \/ target.immunities.both >= 0
         \/ (target.immunities.physical >= 0 /\ target.immunities.magical >= 0)
    ELSE \/ target.immunities[dtype] >= 0
         \/ target.immunities.both >= 0

isImmune(target, dtype) ==
    IF dtype = "both"
    THEN \/ target.immunities.both > 0
         \/ (target.immunities.physical > 0 /\ target.immunities.magical > 0)
    ELSE \/ target.immunities[dtype] > 0
         \/ target.immunities.both > 0

\* amt * 100/(100+resist); the builds keep the quotient exact
Mitigate(amt, resist) == (amt * 100) \div (100 + resist)

\* mutant of MitigatedAmount: kind both is mitigated by the physical resistance alone
MitigatedByPhysical(e, target) ==
    IF e.dtype = "physical" THEN Mitigate(e.amount, target.base.physicalResistance)
    ELSE IF e.dtype = "magical" THEN Mitigate(e.amount, target.base.magicalResistance)
    ELSE IF e.dtype = "both" THEN Mitigate(e.amount, target.base.physicalResistance)
    ELSE e.amount

MitigatedAmount(e, target) ==
    IF e.dtype = "physical" THEN Mitigate(e.amount, target.base.physicalResistance)
    ELSE IF e.dtype = "magical" THEN Mitigate(e.amount, target.base.magicalResistance)
    ELSE IF e.dtype = "both"
         THEN Mitigate(e.amount \div 2, target.base.physicalResistance)
              + Mitigate(e.amount \div 2, target.base.magicalResistance)
    ELSE e.amount

\* x || dflt for a number x
OrElse(x, dflt) == IF x = 0 THEN dflt ELSE x

\* mutant of TimeFreezeTarget: the duration is added to the timer
TimeFreezeAdds(target, duration) ==
    [target EXCEPT !.freeze = target.freeze + OrElse(duration, Sec)]

\* Arena.timeFreeze(target, duration)
TimeFreezeTarget(target, duration) ==
    [target EXCEPT !.freeze = Max(target.freeze, OrElse(duration, Sec))]

\* one iteration of the loop of Arena.applyEffects: the target afterwards
ApplyOne(e, caster, target) ==
    IF e.kind = "damage"
    THEN IF isImmune(target, e.dtype) THEN target
         ELSE [target EXCEPT !.hp = @ - MitigatedAmount(e, target)]
    ELSE IF e.kind = "dot"
    THEN IF isImmune(target, e.dtype) THEN target
         ELSE [target EXCEPT !.dots = Append(@, [dps |-> e.dps, duration |-> e.duration,
                                                  t |-> 0, dtype |-> e.dtype])]
    ELSE IF e.kind = "immunity"
    THEN [target EXCEPT !.immunities[e.dtype] = Max(@, e.duration)]
    ELSE IF e.kind = "timeFreeze"
    THEN TimeFreezeTarget(target, OrElse(e.duration, Sec))
    ELSE IF e.kind = "knockback"
    THEN [target EXCEPT !.vel = @ + (Sign(target.pos - caster.pos) * OrElse(e.force, 80)) \div 2]
    ELSE target

\* Arena.applyEffects(effects, caster, target), caster and target given by index
RECURSIVE applyEffects(_, _, _, _)
applyEffects(w, effects, c, t) ==
    IF effects = <<>> THEN w
    ELSE LET e == Head(effects)
             target == w.fighters[t]
             after == ApplyOne(e, w.fighters[c], target)
             rec == [target |-> t, effect |-> e, immunities |-> target.immunities,
                     immune |-> (e.kind \in {"damage", "dot"} /\ isImmune(target, e.dtype))]
             w1 == [w EXCEPT !.fighters[t] = after,
                             !.trace.applied = Append(@, rec)]
         IN  applyEffects(w1, Tail(effects), c, t)

-----------------------------------------------------------------------------
(* Arena.tick, phase 1: DoT, immunity and cooldown decay of one fighter *)

\* number of passes of "while(d.t >= 1)" for record d
DotPulses(d, dt) == (d.t + dt) \div Sec

\* record d after "d.t += dt" and the while loop
DotAdvance(d, dt) ==
    [d EXCEPT !.t = (d.t + dt) % Sec,
              !.duration = d.duration - DotPulses(d, dt) * Sec]

RECURSIVE DotDamageAll(_, _, _)
\* mutant of DotDamage: a pulse takes dps whether the target is immune or not
DotDamageAll(f, ds, dt) ==
    IF ds = <<>> THEN 0
    ELSE Head(ds).dps * DotPulses(Head(ds), dt) + DotDamageAll(f, Tail(ds), dt)

RECURSIVE DotDamage(_, _, _)
\* the hp the pulses of the records ds take from f in this tick
DotDamage(f, ds, dt) ==
    IF ds = <<>> THEN 0
    ELSE (IF isImmune(f, Head(ds).dtype) THEN 0 ELSE Head(ds).dps * DotPulses(Head(ds), dt))
         + DotDamage(f, Tail(ds), dt)

RECURSIVE PulseCount(_, _)
PulseCount(ds, dt) ==
    IF ds = <<>> THEN 0 ELSE DotPulses(Head(ds), dt) + PulseCount(Tail(ds), dt)

\* mutant of DotLive: a record is dropped only once its duration is negative
DotLiveAtZero(d) == d.duration >= 0

DotLive(d) == d.duration > 0

\* the loop over f.state.dots
DecayDots(f, dt) ==
    LET live == SelectSeq(f.dots, DotLive)
    IN  [f EXCEPT !.dots = [i \in 1..Len(live) |-> DotAdvance(live[i], dt)],
                  !.hp = @ - DotDamage(f, live, dt)]

DecayImmunities(f, dt) ==
    [f EXCEPT !.immunities =
        [k \in Kinds |-> IF f.immunities[k] > 0 THEN f.immunities[k] - dt
                         ELSE f.immunities[k]]]

AbilityNames(f) == {f.abilities[i].name : i \in 1..Len(f.abilities)}

\* f.state.cd[name], undefined read as 0 where the code compares or subtracts
CdOf(f, name) == IF name \in DOMAIN f.cd THEN f.cd[name] ELSE 0

\* mutant of DecayCooldowns: the subtraction without its floor
DecayCooldownsUnfloored(f, dt) ==
    [f EXCEPT !.cd =
        [n \in (DOMAIN f.cd) \cup AbilityNames(f) |->
            IF n \in AbilityNames(f) THEN CdOf(f, n) - dt ELSE f.cd[n]]]

DecayCooldowns(f, dt) ==
    [f EXCEPT !.cd =
        [n \in (DOMAIN f.cd) \cup AbilityNames(f) |->
            IF n \in AbilityNames(f) THEN Max(0, CdOf(f, n) - dt) ELSE f.cd[n]]]

StatusDecay(f, dt) == DecayCooldowns(DecayImmunities(DecayDots(f, dt), dt), dt)

\* phase 1 over both fighters
DecayPhase(w, dt) ==
    [w EXCEPT !.fighters = [i \in 1..Len(w.fighters) |-> StatusDecay(w.fighters[i], dt)],
              !.trace.pulses = [i \in 1..Len(w.fighters) |->
                    PulseCount(SelectSeq(w.fighters[i].dots, DotLive), dt)]]

-----------------------------------------------------------------------------
(* Arena.spawnProjectile and Arena.tick, phase 2: projectiles *)

HitRadius == 18

\* onHit callbacks: (hit) => world.applyEffects(effects, self, hit), or one that throws
HitApply(effects, caster) == [kind |-> "applyEffects", effects |-> effects, caster |-> caster]
HitThrow(caster) == [kind |-> "throws", effects |-> <<>>, caster |-> caster]

\* spawnProjectile({speed, maxTime, from, to, onHit}); dir/L is the sign on the line
spawnProjectile(w, speed, maxTime, from, to, onHit) ==
    [w EXCEPT !.projectiles = Append(@,
        [pos |-> from,
         vel |-> Sign(to - from) * OrElse(speed, 220),
         ttl |-> OrElse(maxTime, 2 * Sec),
         onHit |-> onHit,
         alive |-> TRUE])]

\* p.onHit(f) for projectile i and fighter j
CallOnHit(w, i, j) ==
    LET h == w.projectiles[i].onHit
        w1 == [w EXCEPT !.trace.hits = Append(@, [proj |-> i, who |-> j, kind |-> h.kind])]
    IN  IF h.kind = "throws" THEN [w1 EXCEPT !.fault = TRUE]
        ELSE applyEffects(w1, h.effects, h.caster, j)

RECURSIVE CollideFrom(_, _, _)
\* "for(const f of this.fighters)" for projectile i, from fighter j on
CollideFrom(w, i, j) ==
    IF w.fault \/ j > Len(w.fighters) THEN w
    ELSE IF dist(w.projectiles[i].pos, w.fighters[j].pos) < Px(HitRadius)
         THEN CollideFrom(CallOnHit([w EXCEPT !.projectiles[i].alive = FALSE], i, j), i, j + 1)
         ELSE CollideFrom(w, i, j + 1)

\* mutant of ProjectileStep: a projectile expires only once its ttl is negative
ProjectileStepLate(w, i, dt) ==
    LET p == w.projectiles[i]
    IN  IF ~p.alive THEN w
        ELSE IF p.ttl - dt < 0
        THEN [w EXCEPT !.projectiles[i].ttl = p.ttl - dt,
                       !.projectiles[i].alive = FALSE,
                       !.trace.expired = Append(@, i)]
        ELSE CollideFrom([w EXCEPT !.projectiles[i].ttl = p.ttl - dt,
                                   !.projectiles[i].pos = p.pos + p.vel * dt], i, 1)

\* the body of "for(const p of this.projectiles)" for projectile i
ProjectileStep(w, i, dt) ==
    LET p == w.projectiles[i]
    IN  IF ~p.alive THEN w
        ELSE IF p.ttl - dt <= 0
        THEN [w EXCEPT !.projectiles[i].ttl = p.ttl - dt,
                       !.projectiles[i].alive = FALSE,
                       !.trace.expired = Append(@, i)]
        ELSE CollideFrom([w EXCEPT !.projectiles[i].ttl = p.ttl - dt,
                                   !.projectiles[i].pos = p.pos + p.vel * dt], i, 1)

RECURSIVE ProjectilesFrom(_, _, _)
ProjectilesFrom(w, i, dt) ==
    IF w.fault \/ i > Len(w.projectiles) THEN w
    ELSE ProjectilesFrom(ProjectileStep(w, i, dt), i + 1, dt)

IsAlive(p) == p.alive

\* phase 2 with the cleanup after it
ProjectilePhase(w, dt) ==
    LET w1 == ProjectilesFrom(w, 1, dt)
    IN  IF w1.fault THEN w1
        ELSE [w1 EXCEPT !.projectiles = SelectSeq(@, IsAlive)]

-----------------------------------------------------------------------------
(* Arena.tick, phase 3: AI, movement and cast *)

\* 1000 * Math.pow(0.2, dt/1000), rounded, for the dt values the model uses
Pow02(dt) ==
    CASE dt = 16 -> 975
      [] dt = 33 -> 948
      [] dt = 300 -> 617
      [] dt = 500 -> 447
      [] dt = 1000 -> 200
      [] dt = 1500 -> 89
      [] dt = 2500 -> 18

\* bounds.x and bounds.x + bounds.w, measured from midx
BoundsLo == Px(40 - CanvasHalfWidth)
BoundsHi == Px(CanvasHalfWidth - 40)

RECURSIVE MaxRangeOf(_)
\* me.abilities.reduce((m,a)=>Math.max(m, a.range||0), 0)
MaxRangeOf(abilities) ==
    IF abilities = <<>> THEN 0
    ELSE Max(MaxRangeOf(Tail(abilities)), Head(abilities).range)

\* mutant of Move: the position is not clamped into the bounds
MoveUnclamped(me, op, dt) ==
    LET maxRange == MaxRangeOf(me.abilities)
        ranged == maxRange >= 40
        desired == IF ranged THEN (Px(maxRange) * 8) \div 10 ELSE Px(20)
        d == dist(me.pos, op.pos)
        dir == Sign(op.pos - me.pos)
        speed == me.base.moveSpeed
        p1 == IF ranged /\ d < desired THEN me.pos - dir * speed * dt
              ELSE IF ~ranged /\ d > desired THEN me.pos + dir * speed * dt
              ELSE me.pos
        p2 == p1 + me.vel * dt
    IN  [me EXCEPT !.pos = p2,
                   !.vel = Trunc(me.vel * Pow02(dt), 1000),
                   !.facing = IF p2 < op.pos THEN 1 ELSE 0 - 1]

\* the movement part of a turn: me after move, knockback, friction, bounds, facing
Move(me, op, dt) ==
    LET maxRange == MaxRangeOf(me.abilities)
        ranged == maxRange >= 40
        desired == IF ranged THEN (Px(maxRange) * 8) \div 10 ELSE Px(20)
        d == dist(me.pos, op.pos)
        dir == Sign(op.pos - me.pos)
        speed == me.base.moveSpeed
        p1 == IF ranged /\ d < desired THEN me.pos - dir * speed * dt
              ELSE IF ~ranged /\ d > desired THEN me.pos + dir * speed * dt
              ELSE me.pos
        p2 == p1 + me.vel * dt
        p3 == clamp(p2, BoundsLo, BoundsHi)
    IN  [me EXCEPT !.pos = p3,
                   !.vel = Trunc(me.vel * Pow02(dt), 1000),
                   !.facing = IF p3 < op.pos THEN 1 ELSE 0 - 1]

\* mutant of CastCooldown: the attack speed is not clamped from below
CastCooldownUnclamped(a, attackSpeed) ==
    Max(100, (OrElse(a.cooldown, Sec) * 100) \div attackSpeed)

\* Math.max(0.1, (a.cooldown||1) / Math.max(0.1, attackSpeed))
CastCooldown(a, attackSpeed) ==
    Max(100, (OrElse(a.cooldown, Sec) * 100) \div Max(10, attackSpeed))

\* mutant of Eligible: the range test is left out
EligibleAnyRange(me, a, d) == ~(CdOf(me, a.name) > 0)

\* an ability passes the two tests of the scan
Eligible(me, a, d) == ~(CdOf(me, a.name) > 0) /\ d <= Px(Max(20, a.range))

RECURSIVE FirstEligible(_, _, _)
\* index of the ability the scan "for(const a of me.abilities)" stops at, from i on; 0: none
FirstEligible(me, d, i) ==
    IF i > Len(me.abilities) THEN 0
    ELSE IF Eligible(me, me.abilities[i], d) THEN i
    ELSE FirstEligible(me, d, i + 1)

\* a.onCast.call(a, me, op, this) for ability k of fighter i
CallOnCast(w, i, k) ==
    LET a == w.fighters[i].abilities[k]
        o == Other(i)
        c == a.onCast
        w1 == [w EXCEPT !.trace.casts = Append(@, [who |-> i, ability |-> k])]
    IN  IF c.kind = "applyEffects"
        THEN applyEffects(applyEffects(w1, a.effects, i, o), c.extra, i, o)
        ELSE IF c.kind = "applySelf" THEN applyEffects(w1, a.effects, i, i)
        ELSE IF c.kind = "timeFreeze"
             THEN [w1 EXCEPT !.fighters[o] = TimeFreezeTarget(@, c.duration)]
        ELSE IF c.kind = "spawnProjectile"
             THEN spawnProjectile(w1, c.speed, c.maxTime, w1.fighters[i].pos,
                                  w1.fighters[o].pos, HitApply(a.effects, i))
        ELSE IF c.kind = "spawnProjectileThrows"
             THEN spawnProjectile(w1, c.speed, c.maxTime, w1.fighters[i].pos,
                                  w1.fighters[o].pos, HitThrow(i))
        ELSE IF c.kind = "throws" THEN [w1 EXCEPT !.fault = TRUE]
        ELSE w1

\* fighter i's cooldown for ability k set, then its onCast called
CastAbility(w, i, k) ==
    LET me == w.fighters[i]
    IN  CallOnCast(
            [w EXCEPT !.fighters[i].cd =
                (me.abilities[k].name :> CastCooldown(me.abilities[k], me.base.attackSpeed))
                @@ me.cd],
            i, k)

RECURSIVE CastEveryFrom(_, _, _, _)
CastEveryFrom(w, i, d, k) ==
    IF w.fault \/ k > Len(w.fighters[i].abilities) THEN w
    ELSE IF Eligible(w.fighters[i], w.fighters[i].abilities[k], d)
         THEN CastEveryFrom(CastAbility(w, i, k), i, d, k + 1)
         ELSE CastEveryFrom(w, i, d, k + 1)

\* mutant of Cast: the scan without its break
CastNoBreak(w, i, d) == CastEveryFrom(w, i, d, 1)

\* the cast part of a turn, with d the distance taken before the move
Cast(w, i, d) ==
    LET me == w.fighters[i]
        k == FirstEligible(me, d, 1)
    IN  IF k = 0 THEN w ELSE CastAbility(w, i, k)

\* mutant of Turn: a fighter with no hp left is passed over
TurnAliveOnly(w, i, dt) ==
    LET me == w.fighters[i]
        op == w.fighters[Other(i)]
        d == dist(me.pos, op.pos)
        rec == [who |-> i, frozen |-> me.freeze > 0, freeze |-> me.freeze, d |-> d,
                cd |-> me.cd]
        w1 == [w EXCEPT !.trace.turns = Append(@, rec)]
    IN  IF w.fault \/ me.hp <= 0 THEN w
        ELSE IF me.freeze > 0
        THEN [w1 EXCEPT !.fighters[i].freeze = me.freeze - dt]
        ELSE Cast([w1 EXCEPT !.fighters[i] = Move(me, op, dt)], i, d)

\* mutant of Turn: a frozen fighter's timer is decremented without the "continue"
TurnNoContinue(w, i, dt) ==
    LET me == w.fighters[i]
        op == w.fighters[Other(i)]
        d == dist(me.pos, op.pos)
        rec == [who |-> i, frozen |-> me.freeze > 0, freeze |-> me.freeze, d |-> d,
                cd |-> me.cd]
        w1 == [w EXCEPT !.trace.turns = Append(@, rec)]
        m1 == IF me.freeze > 0 THEN [me EXCEPT !.freeze = me.freeze - dt] ELSE me
    IN  IF w.fault THEN w
        ELSE Cast([w1 EXCEPT !.fighters[i] = Move(m1, op, dt)], i, d)

\* one iteration of "for(const [me, op] of pairs)"
Turn(w, i, dt) ==
    LET me == w.fighters[i]
        op == w.fighters[Other(i)]
        d == dist(me.pos, op.pos)
        rec == [who |-> i, frozen |-> me.freeze > 0, freeze |-> me.freeze, d |-> d,
                cd |-> me.cd]
        w1 == [w EXCEPT !.trace.turns = Append(@, rec)]
    IN  IF w.fault THEN w
        ELSE IF me.freeze > 0
        THEN [w1 EXCEPT !.fighters[i].freeze = me.freeze - dt]
        ELSE Cast([w1 EXCEPT !.fighters[i] = Move(me, op, dt)], i, d)

\* mutant of AIPhase: B's turn comes before A's
AIPhaseBFirst(w, dt) ==
    IF w.fault \/ Len(w.fighters) < 2 THEN w
    ELSE Turn(Turn(w, 2, dt), 1, dt)

AIPhase(w, dt) ==
    IF w.fault \/ Len(w.fighters) < 2 THEN w
    ELSE Turn(Turn(w, 1, dt), 2, dt)

-----------------------------------------------------------------------------
(* Arena.tick, phase 4: hp floor; and the whole tick *)

HpFloor(w) ==
    IF w.fault THEN w
    ELSE [w EXCEPT !.fighters = [i \in 1..Len(w.fighters) |->
                [w.fighters[i] EXCEPT !.hp = IF @ <= 0 THEN 0 ELSE @]]]

\* mutant of tick: the status decay runs after the AI phase instead of first
tickDecayLast(fs, ps, dt) ==
    LET w0 == [World(fs, ps) EXCEPT !.trace.op = "tick", !.trace.dt = dt]
        w1 == AIPhase(ProjectilePhase(w0, dt), dt)
    IN  IF w1.fault THEN w1 ELSE HpFloor(DecayPhase(w1, dt))

\* Arena.tick(dt) on the arena <<fs, ps>>
tick(fs, ps, dt) ==
    LET w0 == [World(fs, ps) EXCEPT !.trace.op = "tick", !.trace.dt = dt]
    IN  HpFloor(AIPhase(ProjectilePhase(DecayPhase(w0, dt), dt), dt))

-----------------------------------------------------------------------------
(* Ability compiler *)

\* A script text, by what "new Function(src)" and its invocation do:
\*   form "syntax":   new Function throws
\*   form "throws":   the invocation throws
\*   form "notArray": it returns something that is no array
\*   form "empty":    the empty text (compiles, returns undefined)
\*   form "array":    it returns the array of ability specs in specs
Script(form, specs) == [form |-> form, specs |-> specs]

\* mutant of compileAbilities: the abilities before the first invalid one are adopted
RECURSIVE ValidPrefix(_)
ValidPrefix(specs) ==
    IF specs = <<>> \/ AbilityThrows(Head(specs)) THEN <<>>
    ELSE <<AbilityMake(Head(specs))>> \o ValidPrefix(Tail(specs))

compilePartial(src) ==
    IF src.form = "syntax"
    THEN [ok |-> FALSE, abilities |-> <<>>, status |-> "Syntax error"]
    ELSE IF src.form /= "array"
    THEN [ok |-> FALSE, abilities |-> <<>>, status |-> "Runtime error"]
    ELSE IF \E i \in 1..Len(src.specs) : AbilityThrows(src.specs[i])
    THEN [ok |-> TRUE, abilities |-> ValidPrefix(src.specs), status |-> "Runtime error"]
    ELSE [ok |-> TRUE, abilities |-> [i \in 1..Len(src.specs) |-> AbilityMake(src.specs[i])],
          status |-> "Loaded"]

\* compileAbilities(src, label, statusEl): ok is FALSE where it returns null,
\* status is the text it leaves in statusEl
compileAbilities(src) ==
    IF src.form = "syntax"
    THEN [ok |-> FALSE, abilities |-> <<>>, status |-> "Syntax error"]
    ELSE IF src.form /= "array"
    THEN [ok |-> FALSE, abilities |-> <<>>, status |-> "Runtime error"]
    ELSE IF \E i \in 1..Len(src.specs) : AbilityThrows(src.specs[i])
    THEN [ok |-> FALSE, abilities |-> <<>>, status |-> "Runtime error"]
    ELSE [ok |-> TRUE, abilities |-> [i \in 1..Len(src.specs) |-> AbilityMake(src.specs[i])],
          status |-> "Loaded"]

Spec6(name, type, cooldown, range, effects, onCast) ==
    [given |-> AbilityFields, name |-> name, type |-> type, cooldown |-> cooldown,
     range |-> range, effects |-> effects, onCast |-> onCast]

\* the template of the "Insert Template" buttons; Firebolt reads self.pos, which
\* is undefined on a fighter, so its onCast throws in spawnProjectile
template ==
    Script("array",
      <<Spec6("Slash", "physical", 1200, 20, <<damage(Hp(14), "physical")>>,
              ApplyThenOnCast(<<knockback(110)>>)),
        Spec6("Firebolt", "magical", 2000, 200,
              <<damage(Hp(10), "magical"), dot(Hp(2), 3 * Sec, "magical")>>, ThrowOnCast)>>)

\* the prefilled editors; both Dash Slash and Frost Bolt read self.pos / target.pos
ExampleA ==
    Script("array",
      <<Spec6("Dash Slash", "physical", 1000, 24,
              <<damage(Hp(15), "physical"), knockback(120)>>, ThrowOnCast)>>)

ExampleB ==
    Script("array",
      <<Spec6("Frost Bolt", "magical", 1600, 200,
              <<damage(Hp(11), "magical"), dot(Hp(2), 2 * Sec, "magical")>>, ThrowOnCast),
        Spec6("Time Stop (mini)", "status", 6000, 160, <<timeFreeze(800)>>,
              FreezeOnCast(800))>>)

-----------------------------------------------------------------------------
(* Stats editor *)

\* the defaults of StatsEditor's fields
DefaultStats ==
    [hp |-> Hp(100), physicalResistance |-> 20, magicalResistance |-> 20,
     moveSpeed |-> 120, attackSpeed |-> 100]

\* StatsEditor.get(): "+data.k || default"
StatsGet(data) ==
    [hp |-> OrElse(data.hp, Hp(100)),
     physicalResistance |-> data.physicalResistance,
     magicalResistance |-> data.magicalResistance,
     moveSpeed |-> OrElse(data.moveSpeed, 100),
     attackSpeed |-> OrElse(data.attackSpeed, 100)]

-----------------------------------------------------------------------------
(* What the user types: the scripts and stats the exploration draws from *)

\* a melee build that throws a knife from self.state.pos and slashes
BrawlerScript ==
    Script("array",
      <<Spec6("Knife", "physical", 200, 30, <<damage(Hp(10), "physical")>>,
              ProjectileOnCast(260, 2500)),
        Spec6("Slash", "physical", 200, 20,
              <<damage(Hp(14), "physical"), knockback(120)>>, ApplyOnCast)>>)

\* a ranged build: immediate magical damage with a DoT, and a self-immunity
CasterScript ==
    Script("array",
      <<Spec6("Zap", "magical", 200, 500,
              <<damage(Hp(12), "magical"), dot(Hp(2), Sec, "magical")>>, ApplyOnCast),
        Spec6("Ward", "status", 200, 500, <<immunity("physical", 50)>>, SelfOnCast)>>)

\* a valid ability followed by one whose cooldown is not > 0
BadBatch ==
    Script("array",
      <<Spec6("Zap", "magical", 200, 500, <<damage(Hp(12), "magical")>>, ApplyOnCast),
        Spec6("Broken", "magical", 0, 500, <<>>, ApplyOnCast)>>)

\* a projectile whose onHit reads a property of undefined
TrapScript ==
    Script("array",
      <<Spec6("Trap", "magical", 2000, 500, <<damage(Hp(10), "magical")>>,
              ProjectileThrowOnCast(260, 2500))>>)

SyntaxErrorText == Script("syntax", <<>>)
ThrowingText == Script("throws", <<>>)
NotArrayText == Script("notArray", <<>>)
EmptyText == Script("empty", <<>>)

TextsA == {ExampleA, BrawlerScript, BadBatch, ThrowingText}
TextsB == {ExampleB, CasterScript, TrapScript, SyntaxErrorText, NotArrayText, EmptyText}
Texts == <<TextsA, TextsB>>

BrawlerStats ==
    [hp |-> Hp(5), physicalResistance |-> 0, magicalResistance |-> 100,
     moveSpeed |-> 6400, attackSpeed |-> 400]

\* negative resistance, attack speed 0.05
OddStats ==
    [hp |-> Hp(100), physicalResistance |-> 0 - 200, magicalResistance |-> 0,
     moveSpeed |-> 1, attackSpeed |-> 5]

StatsChoices == <<{DefaultStats, BrawlerStats}, {DefaultStats, OddStats}>>

-----------------------------------------------------------------------------
(* The page: Init and the handlers *)

\* nothing recorded
NoGrant == [at |-> 0 - 1, kind |-> "both", duration |-> 0, clean |-> TRUE]
NoDot == [at |-> 0 - 1, maxDt |-> 0, pulses |-> 0, count |-> 0]
NoShot == [at |-> 0 - 1, hits |-> 0]
NoHist == [time |-> 0, dot |-> <<NoDot, NoDot>>, grant |-> <<NoGrant, NoGrant>>,
           shot |-> NoShot]

MaxFrames == 4
MaxDt == 33

\* t - this.last of a frame, in ms
Elapsed == {16, 40}

Init ==
    /\ abilitiesText = <<ExampleA, ExampleB>>
    /\ statsData = <<DefaultStats, DefaultStats>>
    /\ compiled = <<<<>>, <<>>>>
    /\ running = FALSE
    /\ playDisabled = FALSE
    /\ pauseDisabled \in BOOLEAN
    /\ loopAlive = TRUE
    /\ fighters = <<>>
    /\ projectiles = <<>>
    /\ frames = 0
    /\ trace = NoTrace
    /\ hist = NoHist

\* the user replaces the text of an editor (typing, pasting, Insert Template, import).
\* The exploration edits the editors before the first Play, and validates before
\* the first tick.
EditAbilities(f, text) ==
    /\ fighters = <<>>
    /\ abilitiesText' = [abilitiesText EXCEPT ![f] = text]
    /\ UNCHANGED <<statsData, compiled, running, playDisabled, pauseDisabled, loopAlive,
                   fighters, projectiles, frames, trace, hist>>

\* change events of the stats inputs
EditStats(f, data) ==
    /\ fighters = <<>>
    /\ statsData' = [statsData EXCEPT ![f] = data]
    /\ UNCHANGED <<abilitiesText, compiled, running, playDisabled, pauseDisabled, loopAlive,
                   fighters, projectiles, frames, trace, hist>>

\* validateA.onclick / validateB.onclick
Validate(f) ==
    LET c == compileAbilities(abilitiesText[f])
    IN  /\ frames = 0
        /\ compiled' = IF c.ok THEN [compiled EXCEPT ![f] = c.abilities] ELSE compiled
        /\ trace' = [NoTrace EXCEPT !.op = "validate", !.status[f] = c.status]
        /\ UNCHANGED <<abilitiesText, statsData, running, playDisabled, pauseDisabled,
                       loopAlive, fighters, projectiles, frames, hist>>

\* mutant of reset: the whole runtime state of the fighters is rebuilt
resetAll(fs) ==
    [i \in 1..Len(fs) |->
        [fs[i] EXCEPT !.pos = IF i = 1 THEN Px(0 - 220) ELSE Px(220),
                      !.hp = fs[i].base.hp,
                      !.vel = 0,
                      !.dots = <<>>,
                      !.immunities = NoImmunities,
                      !.freeze = 0,
                      !.cd = <<>>]]

\* Arena.reset(fighters): the fighters afterwards
reset(fs) ==
    [i \in 1..Len(fs) |->
        [fs[i] EXCEPT !.pos = IF i = 1 THEN Px(0 - 220) ELSE Px(220),
                      !.hp = fs[i].base.hp]]

\* compiledA after "if(!compiledA.length){ const c = compileAbilities(value||template);
\* if(c) compiledA=c; }"
PlaySource(f) == IF abilitiesText[f].form = "empty" THEN template ELSE abilitiesText[f]

PlayCompile(f) ==
    LET c == compileAbilities(PlaySource(f))
    IN  IF Len(compiled[f]) = 0 /\ c.ok THEN c.abilities ELSE compiled[f]

\* the status text Play leaves for fighter f ("": untouched)
PlayStatus(f) ==
    IF Len(compiled[f]) = 0 THEN compileAbilities(PlaySource(f)).status ELSE ""

\* mutant of Play: it returns before Arena.start when a fighter has no abilities
\* loaded and its script fails
PlayBlocked ==
    /\ ~playDisabled
    /\ compiled' = <<PlayCompile(1), PlayCompile(2)>>
    /\ fighters' = reset(<<makeFighter("A", StatsGet(statsData[1]), compiled'[1]),
                           makeFighter("B", StatsGet(statsData[2]), compiled'[2])>>)
    /\ projectiles' = <<>>
    /\ running' = (\A f \in {1, 2} : PlayStatus(f) \in {"", "Loaded"})
    /\ playDisabled' = TRUE
    /\ pauseDisabled' = FALSE
    /\ trace' = [NoTrace EXCEPT !.op = "play", !.status = <<PlayStatus(1), PlayStatus(2)>>]
    /\ UNCHANGED <<abilitiesText, statsData, loopAlive, frames, hist>>

\* mutant of Play: with fighters in the arena it only starts the arena again
PlayResumes ==
    /\ ~playDisabled
    /\ compiled' = <<PlayCompile(1), PlayCompile(2)>>
    /\ fighters' = IF fighters = <<>>
                   THEN reset(<<makeFighter("A", StatsGet(statsData[1]), compiled'[1]),
                                makeFighter("B", StatsGet(statsData[2]), compiled'[2])>>)
                   ELSE fighters
    /\ projectiles' = IF fighters = <<>> THEN <<>> ELSE projectiles
    /\ running' = TRUE
    /\ playDisabled' = TRUE
    /\ pauseDisabled' = FALSE
    /\ trace' = [NoTrace EXCEPT !.op = "play", !.status = <<PlayStatus(1), PlayStatus(2)>>]
    /\ UNCHANGED <<abilitiesText, statsData, loopAlive, frames, hist>>

\* playBtn.onclick
Play ==
    /\ ~playDisabled
    /\ compiled' = <<PlayCompile(1), PlayCompile(2)>>
    /\ fighters' = reset(<<makeFighter("A", StatsGet(statsData[1]), compiled'[1]),
                           makeFighter("B", StatsGet(statsData[2]), compiled'[2])>>)
    /\ projectiles' = <<>>
    /\ running' = TRUE
    /\ playDisabled' = TRUE
    /\ pauseDisabled' = FALSE
    /\ trace' = [NoTrace EXCEPT !.op = "play", !.status = <<PlayStatus(1), PlayStatus(2)>>]
    /\ UNCHANGED <<abilitiesText, statsData, loopAlive, frames, hist>>

\* pauseBtn.onclick
Pause ==
    /\ ~pauseDisabled
    /\ running' = FALSE
    /\ playDisabled' = FALSE
    /\ pauseDisabled' = TRUE
    /\ trace' = [NoTrace EXCEPT !.op = "pause"]
    /\ UNCHANGED <<abilitiesText, statsData, compiled, loopAlive, fighters, projectiles,
                   frames, hist>>

\* resetBtn.onclick
Reset ==
    /\ running' = FALSE
    /\ fighters' = reset(fighters)
    /\ projectiles' = <<>>
    /\ playDisabled' = FALSE
    /\ pauseDisabled' = TRUE
    /\ trace' = [NoTrace EXCEPT !.op = "reset"]
    /\ UNCHANGED <<abilitiesText, statsData, compiled, loopAlive, frames, hist>>

\* mutant of FrameTick: an exception of a callback is caught and the loop goes on
FrameTickCaught(elapsed) ==
    /\ loopAlive
    /\ running
    /\ frames < MaxFrames
    /\ LET w == tick(fighters, projectiles, Min(MaxDt, elapsed))
       IN  /\ fighters' = w.fighters
           /\ projectiles' = w.projectiles
           /\ trace' = w.trace
           /\ loopAlive' = TRUE
    /\ frames' = frames + 1
    /\ UNCHANGED <<abilitiesText, statsData, compiled, running, playDisabled, pauseDisabled,
                   hist>>

\* Arena.loop() of a frame in which the arena is running: tick, then draw and
\* requestAnimationFrame unless the tick threw
FrameTick(elapsed) ==
    /\ loopAlive
    /\ running
    /\ frames < MaxFrames
    /\ LET w == tick(fighters, projectiles, Min(MaxDt, elapsed))
       IN  /\ fighters' = w.fighters
           /\ projectiles' = w.projectiles
           /\ trace' = w.trace
           /\ loopAlive' = ~w.fault
    /\ frames' = frames + 1
    /\ UNCHANGED <<abilitiesText, statsData, compiled, running, playDisabled, pauseDisabled,
                   hist>>

\* mutant of FrameIdle: the loop ticks without looking at this.running
FrameIdleTicks ==
    /\ loopAlive
    /\ ~running
    /\ LET w == tick(fighters, projectiles, MaxDt)
       IN  /\ fighters' = w.fighters
           /\ projectiles' = w.projectiles
           /\ trace' = w.trace
    /\ UNCHANGED <<abilitiesText, statsData, compiled, running, playDisabled, pauseDisabled,
                   loopAlive, frames, hist>>

\* Arena.loop() of a frame in which it is not: draw only
FrameIdle ==
    /\ loopAlive
    /\ ~running
    /\ trace' = [NoTrace EXCEPT !.op = "draw"]
    /\ UNCHANGED <<abilitiesText, statsData, compiled, running, playDisabled, pauseDisabled,
                   loopAlive, fighters, projectiles, frames, hist>>

Next ==
    \/ \E f \in {1, 2} : \E text \in Texts[f] : EditAbilities(f, text)
    \/ \E f \in {1, 2} : \E data \in StatsChoices[f] : EditStats(f, data)
    \/ \E f \in {1, 2} : Validate(f)
    \/ Play
    \/ Pause
    \/ Reset
    \/ \E elapsed \in Elapsed : FrameTick(elapsed)
    \/ FrameIdle

Spec == Init /\ [][Next]_vars

-----------------------------------------------------------------------------
(* The engine driven through Arena.tick(dt) alone, from the state Play leaves, *)
(* with steps of any length: the frame loop's clamp of dt is not applied.      *)

MaxTicks == 5

TickDts == {300, 500, 1000, 2500}

PoisonScript(n) ==
    Script("array",
      <<Spec6("Poison", "magical", 60 * Sec, 500, <<dot(Hp(3), n * Sec, "magical")>>,
              ApplyOnCast)>>)

WardScript(kind) ==
    Script("array",
      <<Spec6("Ward", "status", 60 * Sec, 500, <<immunity(kind, 1500)>>, SelfOnCast)>>)

StrikeScript(kind) ==
    Script("array",
      <<Spec6("Strike", kind, 500, 500, <<damage(Hp(10), kind)>>, ApplyOnCast)>>)

\* a freeze cast once, then a push on every tick
HoldScript ==
    Script("array",
      <<Spec6("Hold", "status", 60 * Sec, 500, <<timeFreeze(800)>>, ApplyOnCast),
        Spec6("Push", "physical", 100, 500, <<knockback(120)>>, ApplyOnCast)>>)

\* a freeze and a push together, on every tick
StunShoveScript ==
    Script("array",
      <<Spec6("Stun Shove", "status", 100, 500, <<timeFreeze(800), knockback(120)>>,
              ApplyOnCast)>>)

\* Time Stop of the prefilled editor B alone, in range from the spawn positions
TimeStopScript ==
    Script("array",
      <<Spec6("Time Stop", "status", 60 * Sec, 500, <<timeFreeze(800)>>, FreezeOnCast(800))>>)

\* a slow projectile of a short life, cast once
DartScript ==
    Script("array",
      <<Spec6("Dart", "physical", 60 * Sec, 500, <<damage(Hp(10), "physical")>>,
              ProjectileOnCast(140, Sec))>>)

\* <<text of A, text of B>>, both with the default stats
Setups ==
    {<<PoisonScript(1), SyntaxErrorText>>,
     <<PoisonScript(2), SyntaxErrorText>>,
     <<StrikeScript("physical"), WardScript("physical")>>,
     <<StrikeScript("both"), WardScript("both")>>,
     <<HoldScript, SyntaxErrorText>>,
     <<HoldScript, TimeStopScript>>,
     <<StunShoveScript, SyntaxErrorText>>,
     <<DartScript, SyntaxErrorText>>}

\* the effects Arena.applyEffects applied to fighter i in the tick of trace tr
AppliedTo(tr, i, kind) ==
    SelectSeq(tr.applied, LAMBDA r : r.target = i /\ r.effect.kind = kind)

\* hist after a tick of length dt that left trace tr
HistAfter(h, tr, dt) ==
    LET time == h.time + dt
        Dot(i) ==
            LET new == SelectSeq(AppliedTo(tr, i, "dot"), LAMBDA r : ~r.immune)
                old == h.dot[i]
            IN  [at |-> IF old.at < 0 /\ Len(new) > 0 THEN time ELSE old.at,
                 maxDt |-> IF old.at < 0 THEN 0 ELSE Max(old.maxDt, dt),
                 pulses |-> old.pulses + tr.pulses[i],
                 count |-> old.count + Len(new)]
        Grant(i) ==
            LET new == AppliedTo(tr, i, "immunity")
            IN  IF Len(new) = 0 THEN h.grant[i]
                ELSE [at |-> time,
                      kind |-> new[Len(new)].effect.dtype,
                      duration |-> new[Len(new)].effect.duration,
                      clean |-> /\ Len(new) = 1
                                /\ \A k \in Kinds : new[1].immunities[k] <= 0]
    IN  [time |-> time, dot |-> <<Dot(1), Dot(2)>>, grant |-> <<Grant(1), Grant(2)>>,
         shot |-> h.shot]

\* the record of the first projectile after a tick that ended at time with the
\* projectiles ps and the trace tr: when it was spawned, and the onHit calls since
ShotAfter(s, time, ps, tr) ==
    [at |-> IF s.at < 0 /\ Len(ps) > 0 THEN time ELSE s.at,
     hits |-> s.hits + Len(tr.hits)]

InitTick ==
    \E su \in Setups :
        /\ abilitiesText = su
        /\ statsData = <<DefaultStats, DefaultStats>>
        /\ compiled = <<compileAbilities(su[1]).abilities, compileAbilities(su[2]).abilities>>
        /\ running = TRUE
        /\ playDisabled = TRUE
        /\ pauseDisabled = FALSE
        /\ loopAlive = TRUE
        /\ fighters = reset(<<makeFighter("A", StatsGet(statsData[1]), compiled[1]),
                              makeFighter("B", StatsGet(statsData[2]), compiled[2])>>)
        /\ projectiles = <<>>
        /\ frames = 0
        /\ trace = NoTrace
        /\ hist = NoHist

\* a call Arena.tick(dt)
TickCall(dt) ==
    /\ loopAlive
    /\ frames < MaxTicks
    /\ LET w == tick(fighters, projectiles, dt)
       IN  /\ fighters' = w.fighters
           /\ projectiles' = w.projectiles
           /\ trace' = w.trace
           /\ loopAlive' = ~w.fault
           /\ hist' = [HistAfter(hist, w.trace, dt) EXCEPT
                          !.shot = ShotAfter(@, hist.time + dt, w.projectiles, w.trace)]
    /\ frames' = frames + 1
    /\ UNCHANGED <<abilitiesText, statsData, compiled, running, playDisabled, pauseDisabled>>

NextTick == \E dt \in TickDts : TickCall(dt)

SpecTick == InitTick /\ [][NextTick]_vars

\* Ticks on a DoT and an immunity of its kind: the DoT first and the immunity
\* after it, and the immunity first
WardSetups ==
    {<<PoisonScript(2), WardScript("magical")>>,
     <<PoisonScript(3), WardScript("both")>>,
     <<WardScript("magical"), PoisonScript(2)>>}

InitWard ==
    \E su \in WardSetups :
        /\ abilitiesText = su
        /\ statsData = <<DefaultStats, DefaultStats>>
        /\ compiled = <<compileAbilities(su[1]).abilities, compileAbilities(su[2]).abilities>>
        /\ running = TRUE
        /\ playDisabled = TRUE
        /\ pauseDisabled = FALSE
        /\ loopAlive = TRUE
        /\ fighters = reset(<<makeFighter("A", StatsGet(statsData[1]), compiled[1]),
                              makeFighter("B", StatsGet(statsData[2]), compiled[2])>>)
        /\ projectiles = <<>>
        /\ frames = 0
        /\ trace = NoTrace
        /\ hist = NoHist

SpecWard == InitWard /\ [][NextTick]_vars

\* Ticks on a fight that takes one fighter to 0 hp: A strikes from afar, B has
\* 10 hp and a melee bite
BiteScript ==
    Script("array",
      <<Spec6("Bite", "physical", 500, 20, <<damage(Hp(10), "physical")>>, ApplyOnCast)>>)

\* the moveSpeed typed for B
DuelSpeeds == {120, 400}

InitDuel ==
    \E speed \in DuelSpeeds :
        /\ abilitiesText = <<StrikeScript("physical"), BiteScript>>
        /\ statsData = <<DefaultStats,
                         [DefaultStats EXCEPT !.hp = Hp(10), !.moveSpeed = speed]>>
        /\ compiled = <<compileAbilities(abilitiesText[1]).abilities,
                        compileAbilities(abilitiesText[2]).abilities>>
        /\ running = TRUE
        /\ playDisabled = TRUE
        /\ pauseDisabled = FALSE
        /\ loopAlive = TRUE
        /\ fighters = reset(<<makeFighter("A", StatsGet(statsData[1]), compiled[1]),
                              makeFighter("B", StatsGet(statsData[2]), compiled[2])>>)
        /\ projectiles = <<>>
        /\ frames = 0
        /\ trace = NoTrace
        /\ hist = NoHist

SpecDuel == InitDuel /\ [][NextTick]_vars

\* Ticks on slow projectiles: a ranged fighter that shoots from its spawn, and a
\* melee fighter that throws when it has closed in
SlowDartScript ==
    Script("array",
      <<Spec6("Slow Dart", "physical", 60 * Sec, 500, <<damage(Hp(10), "physical")>>,
              ProjectileOnCast(40, 60 * Sec))>>)
SlowKnifeScript ==
    Script("array",
      <<Spec6("Slow Knife", "physical", 60 * Sec, 30, <<damage(Hp(10), "physical")>>,
              ProjectileOnCast(40, 60 * Sec))>>)

ShotSetups ==
    {<<SlowDartScript, SyntaxErrorText>>,
     <<SlowKnifeScript, SyntaxErrorText>>}

InitShot ==
    \E su \in ShotSetups :
        /\ abilitiesText = su
        /\ statsData = <<DefaultStats, DefaultStats>>
        /\ compiled = <<compileAbilities(su[1]).abilities, compileAbilities(su[2]).abilities>>
        /\ running = TRUE
        /\ playDisabled = TRUE
        /\ pauseDisabled = FALSE
        /\ loopAlive = TRUE
        /\ fighters = reset(<<makeFighter("A", StatsGet(statsData[1]), compiled[1]),
                              makeFighter("B", StatsGet(statsData[2]), compiled[2])>>)
        /\ projectiles = <<>>
        /\ frames = 0
        /\ trace = NoTrace
        /\ hist = NoHist

SpecShot == InitShot /\ [][NextTick]_vars

-----------------------------------------------------------------------------
(* The effects one at a time, as a callback applies them through the world:   *)
(* world.applyEffects([e], self, target) and world.timeFreeze(target, d), B   *)
(* being the target.                                                          *)

MaxApplies == 2

Resistances == {0, 20, 100, 300}
RawAmounts == {Hp(4), Hp(20)}
FreezeDurations == {0, 500, 2000}

EffectChoices ==
    {damage(a, k) : a \in RawAmounts, k \in Kinds}
    \cup {timeFreeze(d) : d \in FreezeDurations}
    \cup {immunity("physical", 1500)}

InitEffects ==
    \E pr \in Resistances, mr \in Resistances :
        /\ abilitiesText = <<EmptyText, EmptyText>>
        /\ statsData = <<DefaultStats,
                         [DefaultStats EXCEPT !.physicalResistance = pr,
                                              !.magicalResistance = mr]>>
        /\ compiled = <<<<>>, <<>>>>
        /\ running = TRUE
        /\ playDisabled = TRUE
        /\ pauseDisabled = FALSE
        /\ loopAlive = TRUE
        /\ fighters = reset(<<makeFighter("A", StatsGet(statsData[1]), compiled[1]),
                              makeFighter("B", StatsGet(statsData[2]), compiled[2])>>)
        /\ projectiles = <<>>
        /\ frames = 0
        /\ trace = NoTrace
        /\ hist = NoHist

\* world.applyEffects([e], A, B)
ApplyEffect(e) ==
    /\ frames < MaxApplies
    /\ LET w == applyEffects(World(fighters, projectiles), <<e>>, 1, 2)
       IN  /\ fighters' = w.fighters
           /\ trace' = [w.trace EXCEPT !.op = "applyEffects"]
    /\ frames' = frames + 1
    /\ UNCHANGED <<abilitiesText, statsData, compiled, running, playDisabled, pauseDisabled,
                   loopAlive, projectiles, hist>>

\* world.timeFreeze(B, d)
WorldTimeFreeze(d) ==
    /\ frames < MaxApplies
    /\ fighters' = [fighters EXCEPT ![2] = TimeFreezeTarget(@, d)]
    /\ trace' = [NoTrace EXCEPT
                    !.op = "timeFreeze",
                    !.applied = <<[target |-> 2, effect |-> timeFreeze(d),
                                   immunities |-> fighters[2].immunities,
                                   immune |-> FALSE]>>]
    /\ frames' = frames + 1
    /\ UNCHANGED <<abilitiesText, statsData, compiled, running, playDisabled, pauseDisabled,
                   loopAlive, projectiles, hist>>

NextEffects ==
    \/ \E e \in EffectChoices : ApplyEffect(e)
    \/ \E d \in FreezeDurations : WorldTimeFreeze(d)

SpecEffects == InitEffects /\ [][NextEffects]_vars

-----------------------------------------------------------------------------
(* The chase: a melee A against a B that stands still while A is not inside   *)
(* 0.8 of B's range, frame after frame without end, at a steady frame time:   *)
(* every frame has the dt of the first. The frame count is not kept here, so  *)
(* that the frames can go on.                                                 *)

\* a melee ability and a short ranged one, neither with an effect
JabScript ==
    Script("array", <<Spec6("Jab", "physical", 100, 20, <<>>, NoOnCast)>>)
WatchScript ==
    Script("array", <<Spec6("Watch", "status", 100, 40, <<>>, NoOnCast)>>)

\* the moveSpeed typed for A
ChaseSpeeds == {120, 5000}

\* the dt of a frame: Math.min(0.033, t - this.last)
ChaseDts == {Min(MaxDt, elapsed) : elapsed \in Elapsed}

InitChase ==
    \E speed \in ChaseSpeeds :
        /\ abilitiesText = <<JabScript, WatchScript>>
        /\ statsData = <<[DefaultStats EXCEPT !.moveSpeed = speed], DefaultStats>>
        /\ compiled = <<compileAbilities(JabScript).abilities,
                        compileAbilities(WatchScript).abilities>>
        /\ running = TRUE
        /\ playDisabled = TRUE
        /\ pauseDisabled = FALSE
        /\ loopAlive = TRUE
        /\ fighters = reset(<<makeFighter("A", StatsGet(statsData[1]), compiled[1]),
                              makeFighter("B", StatsGet(statsData[2]), compiled[2])>>)
        /\ projectiles = <<>>
        /\ frames = 0
        /\ trace = NoTrace
        /\ hist = NoHist

\* Arena.loop() of a running frame; the chase has no last frame, so frames
\* keeps the parity of the frame count here
ChaseFrame(dt) ==
    /\ loopAlive
    /\ running
    /\ trace.op = "tick" => dt = trace.dt
    /\ LET w == tick(fighters, projectiles, dt)
       IN  /\ fighters' = w.fighters
           /\ projectiles' = w.projectiles
           /\ trace' = w.trace
           /\ loopAlive' = ~w.fault
    /\ frames' = (frames + 1) % 2
    /\ UNCHANGED <<abilitiesText, statsData, compiled, running, playDisabled, pauseDisabled,
                   hist>>

NextChase == \E dt \in ChaseDts : ChaseFrame(dt)

\* requestAnimationFrame(() => this.loop()): a frame that was requested runs
FrameRequested ==
    /\ loopAlive
    /\ frames' = (frames + 1) % 2

\* the loop requests the next frame at the end of every frame, so frames
\* follow one another for as long as the loop is alive
SpecChase == InitChase /\ [][NextChase]_vars /\ WF_frames(FrameRequested)

\* Ticks on ranged fighters: A with a range of 600, inside its desired distance at
\* the spawn, or with a range of 40 and far outside it; B with a range of 40
LobScript ==
    Script("array",
      <<Spec6("Lob", "physical", 500, 600, <<damage(Hp(4), "physical")>>, ApplyOnCast)>>)

\* the moveSpeed typed for A: the input takes any number
KiteSpeeds == {120, 0 - 120}

InitKite ==
    \E text \in {LobScript, WatchScript} : \E speed \in KiteSpeeds :
        /\ abilitiesText = <<text, WatchScript>>
        /\ statsData = <<[DefaultStats EXCEPT !.moveSpeed = speed], DefaultStats>>
        /\ compiled = <<compileAbilities(abilitiesText[1]).abilities,
                        compileAbilities(abilitiesText[2]).abilities>>
        /\ running = TRUE
        /\ playDisabled = TRUE
        /\ pauseDisabled = FALSE
        /\ loopAlive = TRUE
        /\ fighters = reset(<<makeFighter("A", StatsGet(statsData[1]), compiled[1]),
                              makeFighter("B", StatsGet(statsData[2]), compiled[2])>>)
        /\ projectiles = <<>>
        /\ frames = 0
        /\ trace = NoTrace
        /\ hist = NoHist

SpecKite == InitKite /\ [][NextTick]_vars

-----------------------------------------------------------------------------
(* Properties *)

Fighters == {1, 2}

\* the onCast calls of fighter i in the tick of trace tr
CastsBy(tr, i) == SelectSeq(tr.casts, LAMBDA c : c.who = i)

\* the cooldown of ability a as fighter r.who's turn r found it
TurnCd(r, a) == IF a.name \in DOMAIN r.cd THEN r.cd[a.name] ELSE 0

\* ability a was off cooldown and in range in turn r
TurnEligible(r, a) == TurnCd(r, a) <= 0 /\ r.d <= Px(Max(20, a.range))

\* the indices of the abilities of r.who that were eligible in turn r
EligibleIn(r) ==
    {k \in 1..Len(fighters[r.who].abilities) : TurnEligible(r, fighters[r.who].abilities[k])}

\* C1: in every tick each fighter's onCast is invoked at most once, however many
\* of its abilities are off cooldown and in range.
C1_OneCastPerTick ==
    trace.op = "tick" => \A i \in Fighters : Len(CastsBy(trace, i)) <= 1

\* a tick in which a fighter with two eligible abilities cast one
C1_Witness ==
    /\ trace.op = "tick"
    /\ \E n \in 1..Len(trace.turns) :
          /\ ~trace.turns[n].frozen
          /\ Cardinality(EligibleIn(trace.turns[n])) >= 2
          /\ Len(CastsBy(trace, trace.turns[n].who)) = 1

\* the onHit calls of the projectile at index p of the list in the tick of trace tr
HitsOf(tr, p) == SelectSeq(tr.hits, LAMBDA h : h.proj = p)

\* C2: a projectile resolves at most one hit: its onHit is invoked at most once,
\* also in a tick where both fighters are within the hit radius.
C2_OneHitPerProjectile ==
    trace.op = "tick" =>
        \A n \in 1..Len(trace.hits) : Len(HitsOf(trace, trace.hits[n].proj)) <= 1

\* every damage amount and dps of fighter i's abilities is non-negative
NonNegativeEffects(i) ==
    \A k \in 1..Len(fighters[i].abilities) :
        \A n \in 1..Len(fighters[i].abilities[k].effects) :
            /\ fighters[i].abilities[k].effects[n].amount >= 0
            /\ fighters[i].abilities[k].effects[n].dps >= 0

\* C3: after every completed tick every fighter's hp satisfies 0 <= hp <= base hp,
\* the damage amounts and dps being non-negative.
C3_HpWithinBase ==
    (trace.op = "tick" /\ loopAlive /\ \A i \in Fighters : NonNegativeEffects(i)) =>
        \A i \in Fighters : 0 <= fighters[i].hp /\ fighters[i].hp <= fighters[i].base.hp

\* the spec of an ability fails the validation of Ability.make
SpecInvalid(sp) ==
    LET a == AbilityAssign(sp)
    IN  a.type \notin AbilityTypes \/ a.cooldown <= 0 \/ a.range < 0

\* loading the script src fails: it does not compile, its invocation throws, its
\* result is no array, or one of the abilities it produces fails validation
ScriptFails(src) ==
    \/ src.form \in {"syntax", "throws", "notArray", "empty"}
    \/ \E i \in 1..Len(src.specs) : SpecInvalid(src.specs[i])

\* the step is a press of Play
IsPlayStep == ~playDisabled /\ playDisabled' /\ trace'.op = "play"

\* the script a step loads for fighter f, if it loads one
LoadedSource(f) == IF IsPlayStep THEN PlaySource(f) ELSE abilitiesText[f]

\* C4: when loading an ability script fails, the fighter's previously loaded
\* ability set is left exactly as it was; no ability of the failed batch is adopted.
C4_FailedLoadKeepsSet ==
    [][\A f \in Fighters : ScriptFails(LoadedSource(f)) => compiled'[f] = compiled[f]]_vars

\* Validate has just failed on a batch whose first ability is valid, with a set
\* loaded before
C4_Witness ==
    /\ trace.op = "validate"
    /\ trace.status[1] = "Runtime error"
    /\ abilitiesText[1] = BadBatch
    /\ ~SpecInvalid(BadBatch.specs[1])
    /\ compiled[1] = compileAbilities(BrawlerScript).abilities

\* fighter f has no ability set loaded and the script Play would load for it fails
NeverLoadedAndFails(f) == compiled[f] = <<>> /\ ScriptFails(PlaySource(f))

\* C5: if no ability set was ever loaded for a fighter and its script fails,
\* pressing Play does not put the simulation into the Running state.
C5_PlayBlockedOnFailure ==
    [][(IsPlayStep /\ \E f \in Fighters : NeverLoadedAndFails(f)) => ~running']_vars

\* C5 as the code has it: Play starts the simulation all the same; the failure is
\* reported and the fighter is built with an empty ability list.
C5_PlayStartsAnyway ==
    [][IsPlayStep =>
        /\ running'
        /\ \A f \in Fighters : NeverLoadedAndFails(f) =>
              /\ trace'.status[f] \in {"Syntax error", "Runtime error"}
              /\ compiled'[f] = <<>>
              /\ fighters'[f].abilities = <<>>]_vars

\* Play has just started a battle in which B, never loaded, has a failing script
C5_Witness ==
    /\ trace.op = "play"
    /\ running
    /\ trace.status[2] = "Syntax error"
    /\ abilitiesText[2] = SyntaxErrorText
    /\ fighters[2].abilities = <<>>

\* the step is a call of Arena.tick from the frame loop
IsTickStep == frames' = frames + 1 /\ trace'.op = "tick"

\* what a tick created, read from its trace tr
CastNames(tr, fs, i) ==
    {fs[i].abilities[tr.casts[n].ability].name :
        n \in {m \in 1..Len(tr.casts) : tr.casts[m].who = i}}
GrantsTo(tr, t) ==
    SelectSeq(tr.applied, LAMBDA r : r.target = t /\ r.effect.kind = "immunity")
NewDots(tr, t) ==
    SelectSeq(tr.applied, LAMBDA r : r.target = t /\ r.effect.kind = "dot" /\ ~r.immune)
Spawns(tr, fs) ==
    SelectSeq(tr.casts, LAMBDA c : fs[c.who].abilities[c.ability].onCast.kind
                                 \in {"spawnProjectile", "spawnProjectileThrows"})
LiveDots(f) == SelectSeq(f.dots, LAMBDA d : d.duration > 0)

\* what fighter i held before the tick has been decayed by the tick's dt
C6_Decayed(i) ==
    LET f == fighters[i]
        g == fighters'[i]
        dt == trace'.dt
        live == LiveDots(f)
    IN  /\ \A n \in AbilityNames(f) \ CastNames(trace', fighters, i) :
              CdOf(g, n) = Max(0, CdOf(f, n) - dt)
        /\ \A k \in Kinds :
              (f.immunities[k] > 0 /\ \A n \in 1..Len(GrantsTo(trace', i)) :
                                         GrantsTo(trace', i)[n].effect.dtype /= k)
              => g.immunities[k] = f.immunities[k] - dt
        /\ Len(g.dots) >= Len(live)
        /\ \A j \in 1..Len(live) :
              /\ g.dots[j].t = (live[j].t + dt) % Sec
              /\ g.dots[j].duration + ((live[j].t + dt) \div Sec) * Sec = live[j].duration

\* what the tick created for fighter i is undecayed when the tick ends
C6_Fresh(i) ==
    LET f == fighters[i]
        g == fighters'[i]
        new == NewDots(trace', i)
        grants == GrantsTo(trace', i)
        old == Len(LiveDots(f))
    IN  /\ \A n \in 1..Len(trace'.casts) :
              trace'.casts[n].who = i =>
                 LET a == f.abilities[trace'.casts[n].ability]
                 IN  g.cd[a.name] = CastCooldown(a, f.base.attackSpeed)
        /\ \A n \in 1..Len(grants) :
              g.immunities[grants[n].effect.dtype] >= grants[n].effect.duration
        /\ Len(g.dots) = old + Len(new)
        /\ \A j \in 1..Len(new) :
              g.dots[old + j] = [dps |-> new[j].effect.dps, duration |-> new[j].effect.duration,
                                 t |-> 0, dtype |-> new[j].effect.dtype]

\* the projectiles the tick's casts spawned have not been moved or aged by it
C6_SpawnedUntouched ==
    LET sp == Spawns(trace', fighters)
        base == Len(projectiles') - Len(sp)
    IN  /\ base >= 0
        /\ \A j \in 1..Len(sp) :
              LET p == projectiles'[base + j]
                  c == fighters[sp[j].who].abilities[sp[j].ability].onCast
              IN  /\ p.ttl = OrElse(c.maxTime, 2 * Sec)
                  /\ p.pos = fighters'[sp[j].who].pos

\* C6: every tick runs status decay, then projectiles, then AI and casting, then
\* the hp floor; a cooldown, immunity, DoT or projectile created in a tick is
\* first decayed in the next tick.
C6_PhaseOrder ==
    [][IsTickStep =>
        /\ \A i \in Fighters : C6_Decayed(i) /\ C6_Fresh(i)
        /\ C6_SpawnedUntouched
        /\ loopAlive' => \A i \in Fighters : fighters'[i].hp >= 0]_vars

\* a tick has granted B an immunity that is still whole, A carries a DoT of an
\* earlier tick that has aged, and A's hp was floored
C6_Witness ==
    /\ trace.op = "tick"
    /\ loopAlive
    /\ Len(GrantsTo(trace, 2)) = 1
    /\ fighters[2].immunities.physical = 50
    /\ Len(fighters[1].dots) = 1
    /\ fighters[1].dots[1].t > 0
    /\ fighters[1].hp = 0

\* the one DoT effect of the Poison ability A carries in the DoT setups
PoisonOf(fs) == fs[1].abilities[1].effects[1]

\* fighter i has received exactly one DoT, from A's Poison
Poisoned(i) ==
    /\ hist.dot[i].count = 1
    /\ Len(fighters[1].abilities) = 1
    /\ fighters[1].abilities[1].name = "Poison"

\* time accumulated by the ticks after the one that applied the DoT to i
DotAge(i) == hist.time - hist.dot[i].at

\* C7: a DoT of dps d and a duration of n whole seconds deals exactly d*n damage
\* in n pulses, whatever the positive tick lengths are, a tick longer than 1 s or
\* longer than n s included.
C7_DotTotalAnyDt ==
    \A i \in Fighters :
        Poisoned(i) =>
            LET e == PoisonOf(fighters)
                n == e.duration \div Sec
            IN  /\ hist.dot[i].pulses <= n
                /\ fighters[i].hp >= fighters[i].base.hp - e.dps * n
                /\ DotAge(i) >= n * Sec =>
                      /\ hist.dot[i].pulses = n
                      /\ fighters[i].hp = fighters[i].base.hp - e.dps * n

\* C7 as the code has it: the same, provided no tick after the application is
\* longer than 1 s. The record has pulsed once per whole second of accumulated
\* time, n times at most; it is kept with duration 0 by the tick of its n-th
\* pulse and removed by the next tick.
C7_DotTotalShortTicks ==
    \A i \in Fighters :
        (Poisoned(i) /\ hist.dot[i].maxDt <= Sec) =>
            LET e == PoisonOf(fighters)
                n == e.duration \div Sec
                pulses == hist.dot[i].pulses
            IN  /\ pulses = Min(n, DotAge(i) \div Sec)
                /\ fighters[i].hp = fighters[i].base.hp - e.dps * pulses
                /\ pulses < n =>
                      /\ Len(fighters[i].dots) = 1
                      /\ fighters[i].dots[1].duration = (n - pulses) * Sec
                /\ (pulses = n /\ trace.pulses[i] > 0) =>
                      /\ Len(fighters[i].dots) = 1
                      /\ fighters[i].dots[1].duration = 0
                /\ (pulses = n /\ trace.pulses[i] = 0) => fighters[i].dots = <<>>

\* a 2 s DoT has pulsed twice under ticks of at most 1 s, one of them shorter,
\* and its record is gone
C7_Witness ==
    /\ Poisoned(2)
    /\ hist.dot[2].maxDt <= Sec
    /\ PoisonOf(fighters).duration = 2 * Sec
    /\ DotAge(2) % Sec /= 0
    /\ hist.dot[2].pulses = 2
    /\ fighters[2].hp = fighters[2].base.hp - 2 * PoisonOf(fighters).dps
    /\ fighters[2].dots = <<>>

\* C8: after an immunity of kind k and duration D is granted, a damage of kind k
\* applied when the ticks since the grant add up to t changes nothing if t < D
\* and takes the fully mitigated amount if t >= D.
C8_ImmunityWindow ==
    [][\A i \in Fighters :
        LET g == hist.grant[i]
            hits == AppliedTo(trace', i, "damage")
            t == hist'.time - g.at
        IN  (/\ g.at >= 0
             /\ g.clean
             /\ Len(hits) = 1
             /\ hits[1].effect.dtype = g.kind
             /\ trace'.pulses[i] = 0)
            => fighters'[i].hp =
                  IF t < g.duration THEN fighters[i].hp
                  ELSE Max(0, fighters[i].hp - MitigatedAmount(hits[1].effect, fighters[i]))]_vars

\* a damage has landed exactly D after the grant, and one before that was blocked
C8_Witness ==
    /\ hist.grant[2].at >= 0
    /\ hist.time - hist.grant[2].at = hist.grant[2].duration
    /\ Len(AppliedTo(trace, 2, "damage")) = 1
    /\ ~AppliedTo(trace, 2, "damage")[1].immune
    /\ frames = 4
    /\ fighters[2].hp = fighters[2].base.hp - 2 * ((Hp(10) * 100) \div 120)

\* the least element of a non-empty set of numbers
Least(S) == CHOOSE x \in S : \A y \in S : x <= y

\* the cooldowns of fighter i's abilities are those turn record r saw
CooldownsAsIn(r, i) ==
    \A k \in 1..Len(fighters[i].abilities) :
        CdOf(fighters[i], fighters[i].abilities[k].name) = TurnCd(r, fighters[i].abilities[k])

\* C9: the ability a fighter casts in a tick is the first one in declared order
\* whose cooldown is <= 0 and whose range test distance <= max(20, range) passes;
\* if none is eligible nothing is cast and no cooldown changes.
C9_FirstEligibleCast ==
    trace.op = "tick" =>
        \A n \in 1..Len(trace.turns) :
            LET r == trace.turns[n]
                el == EligibleIn(r)
                casts == CastsBy(trace, r.who)
            IN  ~r.frozen =>
                   IF el = {}
                   THEN casts = <<>> /\ CooldownsAsIn(r, r.who)
                   ELSE Len(casts) = 1 /\ casts[1].ability = Least(el)

\* a fighter whose first ability is on cooldown has cast its second one, and the
\* other fighter, with nothing in range, has cast nothing
C9_Witness ==
    /\ trace.op = "tick"
    /\ Len(trace.turns) = 2
    /\ ~trace.turns[1].frozen
    /\ Len(fighters[1].abilities) > 0
    /\ EligibleIn(trace.turns[1]) = {}
    /\ CastsBy(trace, 1) = <<>>
    /\ ~trace.turns[2].frozen
    /\ EligibleIn(trace.turns[2]) = {2}
    /\ CastsBy(trace, 2) = <<[who |-> 2, ability |-> 2]>>

\* the cooldown entries of the abilities cast in the last tick
CastEntries ==
    {<<trace.casts[n].who, fighters[trace.casts[n].who].abilities[trace.casts[n].ability]>> :
        n \in 1..Len(trace.casts)}

AppliesOne(kind) ==
    /\ trace'.op \in {"applyEffects", "timeFreeze"}
    /\ frames' = frames + 1
    /\ Len(trace'.applied) = 1
    /\ trace'.applied[1].effect.kind = kind

\* C11: TimeFreeze of duration d, through applyEffects or through
\* world.timeFreeze, sets the target's freeze timer to max(current, d) for every
\* d >= 0, d = 0 included.
C11_FreezeIsMax ==
    [][AppliesOne("timeFreeze") =>
        LET r == trace'.applied[1]
        IN  fighters'[r.target].freeze = Max(fighters[r.target].freeze, r.effect.duration)]_vars

\* C11 as the code has it: a duration of 0 is read as 1 second on both paths;
\* for d > 0 the timer becomes max(current, d).
C11_FreezeIsMaxOrDefault ==
    [][AppliesOne("timeFreeze") =>
        LET r == trace'.applied[1]
            d == IF r.effect.duration = 0 THEN Sec ELSE r.effect.duration
        IN  fighters'[r.target].freeze = Max(fighters[r.target].freeze, d)]_vars

\* world.timeFreeze of 0.5 s has left a timer of 2 s as it was
C11_Witness ==
    /\ trace.op = "timeFreeze"
    /\ trace.applied[1].effect.duration = 500
    /\ fighters[2].freeze = 2000

\* C14: a Damage on a non-immune target takes raw*100/(100+resistance) for kind
\* physical or magical, which is raw at resistance 0 and strictly decreasing in
\* the resistance, and (raw/2)*100/(100+physicalResistance) +
\* (raw/2)*100/(100+magicalResistance) for kind both: 15 for raw 20 with
\* resistances 0 and 100.
C14_Mitigation ==
    [][(AppliesOne("damage") /\ \A k \in Kinds : fighters[2].immunities[k] <= 0) =>
        LET e == trace'.applied[1].effect
            f == fighters[2]
            pr == f.base.physicalResistance
            mr == f.base.magicalResistance
            taken == f.hp - fighters'[2].hp
        IN  /\ e.dtype = "physical" =>
                 /\ taken * (100 + pr) = e.amount * 100
                 /\ pr = 0 => taken = e.amount
                 /\ \A r \in Resistances :
                       r > pr => MitigatedAmount(e, [f EXCEPT !.base.physicalResistance = r]) < taken
            /\ e.dtype = "magical" =>
                 /\ taken * (100 + mr) = e.amount * 100
                 /\ mr = 0 => taken = e.amount
                 /\ \A r \in Resistances :
                       r > mr => MitigatedAmount(e, [f EXCEPT !.base.magicalResistance = r]) < taken
            /\ e.dtype = "both" =>
                 /\ 2 * taken * (100 + pr) * (100 + mr)
                       = e.amount * 100 * ((100 + mr) + (100 + pr))
                 /\ (e.amount = Hp(20) /\ pr = 0 /\ mr = 100) => taken = Hp(15)]_vars

\* a Damage of kind both and raw 20 has taken 15 hp from a target of resistances 0 and 100
C14_Witness ==
    /\ trace.op = "applyEffects"
    /\ frames = 1
    /\ trace.applied[1].effect = damage(Hp(20), "both")
    /\ fighters[2].base.physicalResistance = 0
    /\ fighters[2].base.magicalResistance = 100
    /\ fighters[2].hp = fighters[2].base.hp - Hp(15)

\* the knockback impulses and the freeze durations fighter i received in the tick
\* of trace tr, fs being the fighters after it
RECURSIVE SumOf(_)
SumOf(q) == IF q = <<>> THEN 0 ELSE Head(q) + SumOf(Tail(q))

ImpulsesOn(tr, fs, i) ==
    LET ks == AppliedTo(tr, i, "knockback")
    IN  [n \in 1..Len(ks) |->
            (Sign(fs[i].pos - fs[Other(i)].pos) * ks[n].effect.force) \div 2]

FreezesOn(tr, fs, i) ==
    LET es == AppliedTo(tr, i, "timeFreeze")
        cs == SelectSeq(CastsBy(tr, Other(i)),
                        LAMBDA c : fs[Other(i)].abilities[c.ability].onCast.kind = "timeFreeze")
    IN  [n \in 1..Len(es) |-> es[n].effect.duration]
        \o [n \in 1..Len(cs) |-> fs[Other(i)].abilities[cs[n].ability].onCast.duration]

\* C12: in a tick in which a fighter's freeze timer is > 0 when its AI turn starts,
\* the turn only decrements the timer by dt: position, velocity and facing are
\* not changed by it, no cooldown is set and no onCast of the fighter is invoked.
\* (The velocity still takes the knockbacks the opponent lands in that tick, and
\* A's timer a freeze B casts after A's turn.)
C12_FrozenTurn ==
    [][IsTickStep =>
        \A n \in 1..Len(trace'.turns) :
            LET r == trace'.turns[n]
                i == r.who
                f == fighters[i]
                g == fighters'[i]
                dt == trace'.dt
                later == IF i = 1 THEN FreezesOn(trace', fighters', 1) ELSE <<>>
            IN  r.freeze > 0 =>
                   /\ r.frozen
                   /\ g.pos = f.pos
                   /\ g.facing = f.facing
                   /\ g.vel = f.vel + SumOf(ImpulsesOn(trace', fighters', i))
                   /\ CastsBy(trace', i) = <<>>
                   /\ \A a \in AbilityNames(f) : CdOf(g, a) = Max(0, CdOf(f, a) - dt)
                   /\ g.freeze = IF later = <<>> THEN r.freeze - dt
                                 ELSE Max(r.freeze - dt, later[1])]_vars

\* B, frozen with a push already in its velocity, has gone through a tick in
\* which it took another push: it has not moved and its velocity has not decayed
C12_Witness ==
    /\ trace.op = "tick"
    /\ Len(trace.turns) = 2
    /\ trace.turns[2].frozen
    /\ trace.turns[2].freeze = fighters[2].freeze + trace.dt
    /\ Len(AppliedTo(trace, 2, "knockback")) = 1
    /\ fighters[2].vel = 120
    /\ fighters[2].pos = Px(220)
    /\ CastsBy(trace, 2) = <<>>

\* a callback threw in the tick of trace tr: an onCast or an onHit that throws was called
ThrewIn(tr, fs) ==
    \/ \E n \in 1..Len(tr.casts) :
          fs[tr.casts[n].who].abilities[tr.casts[n].ability].onCast.kind = "throws"
    \/ \E n \in 1..Len(tr.hits) : tr.hits[n].kind = "throws"

\* the step is a frame of the loop: a tick, or a draw alone
IsFrameStep == frames' /= frames \/ (trace'.op \in {"tick", "draw"} /\ trace' /= trace)

\* C13: an exception that escapes an onCast or onHit during a running tick is not
\* caught: the frame loop is never rescheduled, and no further tick and no
\* further render happens after the fault.
C13_FaultHaltsLoop ==
    [][/\ (IsTickStep /\ ThrewIn(trace', fighters')) =>
            /\ ~loopAlive'
            /\ LET last == trace'.casts[Len(trace'.casts)]
               IN  Len(trace'.casts) > 0 =>
                      /\ fighters'[last.who].abilities[last.ability].onCast.kind = "throws"
                      /\ Len(trace'.turns) = last.who
       /\ ~loopAlive => (~loopAlive' /\ ~IsFrameStep)]_vars

\* an onHit has thrown in the projectile phase, before any turn, and the loop is dead
C13_Witness ==
    /\ ~loopAlive
    /\ trace.op = "tick"
    /\ frames < MaxFrames
    /\ Len(trace.hits) = 1
    /\ trace.hits[1].kind = "throws"
    /\ trace.turns = <<>>

\* the forces of the knockbacks the abilities of fighter i's opponent carry
ForcesAgainst(i) ==
    LET as == fighters[Other(i)].abilities
    IN  UNION {{as[k].effects[n].force : n \in 1..Len(as[k].effects)}
               \cup {as[k].onCast.extra[n].force : n \in 1..Len(as[k].onCast.extra)} :
               k \in 1..Len(as)}

\* the largest element of a set of naturals, 0 for the empty set
Largest(S) == IF S = {} THEN 0 ELSE CHOOSE x \in S : \A y \in S : y <= x

\* C15: knockback cannot produce runaway speeds: every fighter's velocity stays
\* below a fixed bound in every reachable state, whatever the sequence of
\* knockbacks, also when they land on a frozen fighter. The bound taken is twice
\* the largest knockback force against the fighter, i.e. four impulses; under
\* friction on every tick the velocity stays below 1.4 times the force.
C15_VelocityBounded ==
    \A i \in Fighters : Abs(fighters[i].vel) <= 2 * Largest(ForcesAgainst(i))

\* A's one ability spawns the one projectile of the battle
OneShot ==
    /\ hist.shot.at >= 0
    /\ Len(fighters[1].abilities) = 1
    /\ fighters[1].abilities[1].onCast.kind = "spawnProjectile"
    /\ Len(fighters[2].abilities) = 0

\* the dt accumulated since the spawn, and the projectile's maxTime
ShotAge == hist.time - hist.shot.at
ShotMaxTime == fighters[1].abilities[1].onCast.maxTime

\* C16: a projectile spawned with maxTime T that never comes within the hit radius
\* of a fighter is alive at every tick at which the dt accumulated since its spawn
\* is below T, and at the first tick at which it is >= T it is marked dead and
\* removed without moving or colliding: onHit is never invoked.
C16_ProjectileExpiry ==
    (trace.op = "tick" /\ OneShot /\ hist.shot.hits = Len(trace.hits)) =>
        /\ (ShotAge < ShotMaxTime /\ trace.hits = <<>>) =>
              /\ Len(projectiles) = 1
              /\ projectiles[1].alive
              /\ projectiles[1].ttl = ShotMaxTime - ShotAge
              /\ trace.expired = <<>>
        /\ ShotAge >= ShotMaxTime =>
              /\ projectiles = <<>>
              /\ trace.hits = <<>>
              /\ trace.expired = IF ShotAge - trace.dt < ShotMaxTime THEN <<1>> ELSE <<>>

\* the projectile, spawned in a tick of 2.5 s, has expired untouched in the next
\* tick, of 1 s: at accumulated dt = T
C16_Witness ==
    /\ trace.op = "tick"
    /\ OneShot
    /\ hist.shot.hits = 0
    /\ hist.shot.at = 2500
    /\ ShotAge = ShotMaxTime
    /\ trace.expired = <<1>>
    /\ projectiles = <<>>

\* C17: after every tick each fighter's position lies inside the arena bounds,
\* whatever the sequence of movement, kiting, chasing, knockback and freezes,
\* the spawn positions being inside the bounds. (On the line through the spawn
\* positions the y coordinate never changes; the x coordinate is checked.)
C17_InsideBounds ==
    trace.op = "tick" =>
        \A i \in Fighters : BoundsLo <= fighters[i].pos /\ fighters[i].pos <= BoundsHi

\* B, thawed with the velocity of the pushes it took, has been carried into the
\* right edge
C17_Witness ==
    /\ trace.op = "tick"
    /\ fighters[2].pos = BoundsHi
    /\ ~trace.turns[2].frozen
    /\ fighters[2].vel > 0

\* A is within 20 px of B; B has left its spawn position
ChaseClose == dist(fighters[1].pos, fighters[2].pos) <= Px(20)
OpponentMoved == fighters[2].pos /= Px(220)

\* C18: a melee fighter with moveSpeed > 0, not frozen, against an opponent that
\* stands still, gets within 20 px of it eventually, for every dt in (0, 0.033].
C18_ChaseReaches == <>(ChaseClose \/ OpponentMoved)

\* the step is pauseBtn.onclick
IsPauseStep == ~pauseDisabled /\ pauseDisabled' /\ trace'.op = "pause"

\* C19: while the arena is not running, a step other than Play and Reset (a frame
\* of the loop, however many there are) leaves the fighters (hp, position,
\* velocity, DoT records, immunity, freeze and cooldown timers) and the
\* projectile list as they are; and pausing turns the running flag off and
\* changes nothing else of the arena.
C19_PausedKeepsState ==
    [][ /\ (~running /\ trace'.op \notin {"play", "reset"})
            => (fighters' = fighters /\ projectiles' = projectiles)
        /\ IsPauseStep
            => /\ ~running'
               /\ fighters' = fighters
               /\ projectiles' = projectiles
               /\ loopAlive' = loopAlive
               /\ compiled' = compiled ]_vars

\* a frame was drawn while paused in the middle of a fight: a projectile is in
\* flight and a cooldown is running
C19_Witness ==
    /\ trace.op = "draw"
    /\ ~running
    /\ projectiles /= <<>>
    /\ \E i \in Fighters : \E a \in DOMAIN fighters[i].cd : fighters[i].cd[a] > 0

\* fighter f stands at the spawn of slot i with its base hp
AtSpawn(f, i) ==
    /\ f.hp = f.base.hp
    /\ f.pos = IF i = 1 THEN Px(0 - 220) ELSE Px(220)

\* nothing of an earlier fight is left on fighter f
NoLeftover(f) ==
    /\ f.dots = <<>>
    /\ f.immunities = NoImmunities
    /\ f.freeze = 0
    /\ \A a \in DOMAIN f.cd : f.cd[a] = 0
    /\ f.vel = 0

\* C20 as stated: after Reset every fighter has its base hp and stands at its
\* spawn, the projectile list is empty, and no DoT record, immunity timer,
\* freeze timer, cooldown or knockback velocity remains.
C20_ResetReplacesState ==
    trace.op = "reset" =>
        /\ projectiles = <<>>
        /\ \A i \in DOMAIN fighters : AtSpawn(fighters[i], i) /\ NoLeftover(fighters[i])

\* C20, amended: Reset stops the arena, empties the projectile list and puts
\* every fighter at its spawn with its base hp, and leaves the fighter's DoT
\* records, immunity, freeze and cooldown timers and velocity as they were; it is
\* the next Play that starts from fighters with none of them.
C20_ResetKeepsTimers ==
    [][ /\ trace'.op = "reset"
            => /\ ~running'
               /\ projectiles' = <<>>
               /\ DOMAIN fighters' = DOMAIN fighters
               /\ \A i \in DOMAIN fighters :
                      /\ AtSpawn(fighters'[i], i)
                      /\ fighters'[i].dots = fighters[i].dots
                      /\ fighters'[i].immunities = fighters[i].immunities
                      /\ fighters'[i].freeze = fighters[i].freeze
                      /\ fighters'[i].cd = fighters[i].cd
                      /\ fighters'[i].vel = fighters[i].vel
        /\ (trace'.op = "play" /\ ~playDisabled)
            => /\ projectiles' = <<>>
               /\ \A i \in DOMAIN fighters' :
                      AtSpawn(fighters'[i], i) /\ NoLeftover(fighters'[i]) ]_vars

\* Reset was pressed in a fight: the fighters are back at their spawns with base
\* hp, and one of them still carries a DoT record and a running cooldown
C20_Witness ==
    /\ trace.op = "reset"
    /\ projectiles = <<>>
    /\ \A i \in DOMAIN fighters : AtSpawn(fighters[i], i)
    /\ \E i \in DOMAIN fighters :
           /\ fighters[i].dots /= <<>>
           /\ \E a \in DOMAIN fighters[i].cd : fighters[i].cd[a] > 0

\* C21: no cooldown is ever negative, and over a tick in which the fighter did not
\* cast the ability of that name its cooldown goes from cd to max(0, cd - dt): it
\* does not increase, and at 0 it stays at 0.
C21_CooldownDecay ==
    [][ IsTickStep =>
          \A i \in DOMAIN fighters' : \A n \in DOMAIN fighters'[i].cd :
              /\ fighters'[i].cd[n] >= 0
              /\ n \notin CastNames(trace', fighters', i)
                    => /\ fighters'[i].cd[n] = Max(0, CdOf(fighters[i], n) - trace'.dt)
                       /\ fighters'[i].cd[n] <= CdOf(fighters[i], n) ]_vars

\* a tick in which A, frozen, cast nothing: its short cooldown has run out and
\* rests at 0 while its long one is still running down
C21_Witness ==
    /\ trace.op = "tick"
    /\ abilitiesText[1] = HoldScript
    /\ trace.turns[1].frozen
    /\ CastNames(trace, fighters, 1) = {}
    /\ fighters[1].cd["Push"] = 0
    /\ fighters[1].cd["Hold"] > 0
    /\ fighters[1].cd["Hold"] < 60 * Sec

\* what the pulses of this tick take from fighter f: dps per pulse of every live
\* record to whose damage kind f is not immune when the tick starts
PulseDamage(f, dt) ==
    LET live == LiveDots(f)
    IN  SumOf([j \in 1..Len(live) |->
                 IF isImmune(f, live[j].dtype) THEN 0
                 ELSE live[j].dps * ((live[j].t + dt) \div Sec)])

\* the dot effects applied to fighter i in the tick of trace tr while it was immune
RefusedDots(tr, i) ==
    SelectSeq(tr.applied, LAMBDA r : r.target = i /\ r.effect.kind = "dot" /\ r.immune)

\* C22: in every tick each live DoT record loses 1 s of duration per pulse,
\* immune or not, and the fighter loses dps per pulse only for the records to
\* whose kind it is not immune; a DoT applied to an immune fighter adds no
\* record, one applied to a fighter that is not immune adds one.
C22_DotUnderImmunity ==
    [][ IsTickStep =>
          \A i \in Fighters :
              LET f == fighters[i]
                  g == fighters'[i]
                  dt == trace'.dt
                  live == LiveDots(f)
                  left == f.hp - PulseDamage(f, dt)
              IN  /\ AppliedTo(trace', i, "damage") = <<>>
                        => g.hp = IF left <= 0 THEN 0 ELSE left
                  /\ Len(g.dots) = Len(live) + Len(NewDots(trace', i))
                  /\ \A j \in 1..Len(live) :
                        g.dots[j].duration =
                            live[j].duration - ((live[j].t + dt) \div Sec) * Sec ]_vars

\* a 2 s DoT on B has had both its pulses: the first fell under B's immunity and
\* took nothing, the second, in this tick, after the immunity had run out, took dps
C22_Witness ==
    /\ abilitiesText = <<PoisonScript(2), WardScript("magical")>>
    /\ hist.dot[2].pulses = 2
    /\ trace.pulses[2] = 1
    /\ fighters[2].immunities["magical"] <= 0
    /\ fighters[2].hp = fighters[2].base.hp - Hp(3)
    /\ fighters[2].dots[1].duration = 0

\* a DoT was applied to A while A was immune, and A has no record
C22_RefusedWitness ==
    /\ abilitiesText = <<WardScript("magical"), PoisonScript(2)>>
    /\ RefusedDots(trace, 1) /= <<>>
    /\ fighters[1].dots = <<>>

\* the fighters fs, those at 0 hp given their base hp back
Revived(fs) ==
    [i \in DOMAIN fs |-> [fs[i] EXCEPT !.hp = IF @ = 0 THEN fs[i].base.hp ELSE @]]

\* the fighters fs but for their hp
ButHp(fs) == [i \in DOMAIN fs |-> [fs[i] EXCEPT !.hp = 0]]

\* C23: a tick that starts with a fighter at 0 hp runs like any other and leaves
\* the loop alive, and it does to the fighters and projectiles, hp apart, what it
\* would do if that fighter had hp: the same turns, moves and casts.
C23_ZeroHpFightsOn ==
    [][ (IsTickStep /\ \E i \in Fighters : fighters[i].hp = 0) =>
          LET w == tick(Revived(fighters), projectiles, trace'.dt)
          IN  /\ loopAlive'
              /\ Len(trace'.turns) = 2
              /\ trace'.turns = w.trace.turns
              /\ trace'.casts = w.trace.casts
              /\ ButHp(fighters') = ButHp(w.fighters)
              /\ projectiles' = w.projectiles ]_vars

\* B, at 0 hp since before this tick (nothing hit it in the tick), took its
\* turn in it and bit A
C23_Witness ==
    /\ abilitiesText[2] = BiteScript
    /\ trace.op = "tick"
    /\ fighters[2].hp = 0
    /\ AppliedTo(trace, 2, "damage") = <<>>
    /\ ~trace.turns[2].frozen
    /\ CastNames(trace, fighters, 2) = {"Bite"}
    /\ fighters[1].hp < fighters[1].base.hp

\* projectile p is where its caster stands, its opponent is more than the hit
\* radius away, and p travels less than the hit radius in a tick of dt
AtCasterSlow(p, dt) ==
    LET c == p.onHit.caster
    IN  /\ p.pos = fighters[c].pos
        /\ dist(fighters[c].pos, fighters[Other(c)].pos) > Px(HitRadius)
        /\ Abs(p.vel) * dt < Px(HitRadius)

\* C24: a projectile that starts a tick at its caster's position, aimed at an
\* opponent more than 18 px away, and travels less than 18 px in the tick, has
\* its onHit invoked in that tick with the caster and with nobody else.
C24_SelfHitOnly ==
    [][ IsTickStep =>
          \A k \in 1..Len(projectiles) :
              AtCasterSlow(projectiles[k], trace'.dt) =>
                  /\ Len(HitsOf(trace', k)) = 1
                  /\ HitsOf(trace', k)[1].who = projectiles[k].onHit.caster ]_vars

\* the record of fighter i's turn in the tick of trace tr
TurnOf(tr, i) == SelectSeq(tr.turns, LAMBDA r : r.who = i)[1]

\* C25: A's turn is over before B's starts. A's turn is a frozen one exactly when
\* A's freeze timer was > 0 as the tick began, whatever B casts in the tick; a
\* freeze A casts on B makes B's turn of the same tick a frozen one (B does not
\* move and does not cast, so it cannot freeze A back); a freeze B casts on A
\* leaves A's timer > 0 for the next tick.
C25_TurnOrder ==
    [][ (IsTickStep /\ Len(trace'.turns) = 2 /\ trace'.hits = <<>>) =>
          LET byA == FreezesOn(trace', fighters', 2)
              byB == FreezesOn(trace', fighters', 1)
          IN  /\ TurnOf(trace', 1).frozen = (fighters[1].freeze > 0)
              /\ trace'.turns[1].who = 1
              /\ byA /= <<>> =>
                    /\ TurnOf(trace', 2).frozen
                    /\ fighters'[2].pos = fighters[2].pos
                    /\ CastsBy(trace', 2) = <<>>
                    /\ byB = <<>>
              /\ byB /= <<>> => fighters'[1].freeze > 0 ]_vars

\* B froze A in this tick, after A had taken its turn and cast in it: A's timer
\* is whole for the next tick
C25_Witness ==
    /\ abilitiesText = <<HoldScript, TimeStopScript>>
    /\ trace.op = "tick"
    /\ CastNames(trace, fighters, 2) = {"Time Stop"}
    /\ ~TurnOf(trace, 1).frozen
    /\ CastNames(trace, fighters, 1) = {"Push"}
    /\ fighters[1].freeze = 800

\* both could freeze the other in the first tick: A did, and B, frozen, cast nothing
C25_FirstTickWitness ==
    /\ abilitiesText = <<HoldScript, TimeStopScript>>
    /\ frames = 1
    /\ CastNames(trace, fighters, 1) = {"Hold"}
    /\ TurnOf(trace, 2).frozen
    /\ CastsBy(trace, 2) = <<>>
    /\ fighters[1].freeze = 0

\* fighter f is ranged
IsRanged(f) == MaxRangeOf(f.abilities) >= 40

\* where fighter i's opponent stands when i's turn comes in the step
OpponentPos(i) == IF i = 1 THEN fighters[2].pos ELSE fighters'[1].pos

\* the two fighters are out of reach of every ability of both
OutOfReach ==
    \A i \in Fighters : \A k \in 1..Len(fighters[i].abilities) :
        dist(fighters[1].pos, fighters[2].pos) > Px(Max(20, fighters[i].abilities[k].range))

\* C26: a ranged fighter that is not frozen and carries no knockback does not end
\* its turn nearer to where its opponent stands than it began it; and when both
\* are ranged, neither carries a knockback, nothing is in flight and they are out
\* of reach of every ability of both, the tick casts nothing and their distance
\* does not decrease.
C26_RangedKeepsAway ==
    [][ IsTickStep =>
          /\ \A i \in Fighters :
                (/\ IsRanged(fighters[i])
                 /\ ~TurnOf(trace', i).frozen
                 /\ fighters[i].vel = 0
                 /\ AppliedTo(trace', i, "knockback") = <<>>)
                => dist(fighters'[i].pos, OpponentPos(i)) >= dist(fighters[i].pos, OpponentPos(i))
          /\ (/\ \A i \in Fighters : IsRanged(fighters[i]) /\ fighters[i].vel = 0
               /\ projectiles = <<>>
               /\ OutOfReach)
              => /\ trace'.casts = <<>>
                 /\ dist(fighters'[1].pos, fighters'[2].pos)
                       >= dist(fighters[1].pos, fighters[2].pos) ]_vars

\* C27: Play pressed while the arena holds fighters and is not running puts two
\* new fighters in it, built from the stats editors and the loaded ability sets:
\* base hp, spawn position, no velocity, no DoT record, immunity and freeze
\* timers 0, an empty cooldown map; the projectile list is empty and the arena
\* runs. Nothing of the paused fight is left.
C27_PlayRestarts ==
    [][ (IsPlayStep /\ ~running /\ fighters /= <<>>) =>
          /\ running'
          /\ projectiles' = <<>>
          /\ Len(fighters') = 2
          /\ \A i \in Fighters :
                LET g == fighters'[i]
                IN  /\ g.base = StatsGet(statsData[i])
                    /\ g.abilities = compiled'[i]
                    /\ g.hp = g.base.hp
                    /\ g.pos = (IF i = 1 THEN Px(0 - 220) ELSE Px(220))
                    /\ g.vel = 0
                    /\ g.dots = <<>>
                    /\ g.immunities = NoImmunities
                    /\ g.freeze = 0
                    /\ g.cd = <<>> ]_vars

\* Play has been pressed after ticks of a fight: the arena runs with two fighters
\* as new and no projectile
C27_Witness ==
    /\ trace.op = "play"
    /\ frames > 1
    /\ running
    /\ projectiles = <<>>
    /\ Len(fighters[1].abilities) > 0
    /\ \A i \in Fighters :
          /\ AtSpawn(fighters[i], i)
          /\ fighters[i].cd = <<>>
          /\ fighters[i].dots = <<>>

====
